---- MODULE Spec2Model ----
(***************************************************************************)
(* Team records of the NBA matchup report: GameHeaderCollector derives     *)
(* home/away, conference, division, vs-conference, last-3/7/12 records and *)
(* the current streak from the games.json listing of the sports-data feed, *)
(* and reads the overall record from the feed's standings.                 *)
(*                                                                         *)
(* RollingStatsCollector averages the box scores of a team's last 3, 7 and *)
(* 12 game logs.  The games.json and standings requests are taken to       *)
(* succeed; a team_gamelogs.json request may fail.                         *)
(*                                                                         *)
(* A game entry of the listing is the record                               *)
(*   [id, date, playedStatus, awayTeam, homeTeam, score]                   *)
(* id     the text of schedule.id cut at '-': <<>> for a missing or empty  *)
(*        id, <<n>> for an id without a dash, <<d, n>> for "d-...".        *)
(* date   the calendar day of the game (YYYYMMDD), known to the feed.      *)
(* score  the score dict: a function whose domain is the set of keys the   *)
(*        feed supplied among awayScoreTotal and homeScoreTotal.           *)
(***************************************************************************)
EXTENDS Integers, Sequences, FiniteSets, TLC

VARIABLES feed, call, records

vars == <<feed, call, records>>

(***************************************************************************)
(* Bounds of the model.                                                    *)
(***************************************************************************)
MaxGames == 2

MaxFeedGames == 2

MaxSeasonGames == 13

NumDays == 3

(***************************************************************************)
(* Program constants.                                                      *)
(***************************************************************************)
HardcodedDate == 20250119

None == "None"

NoCall == [team |-> None, date |-> 0]

NoRecords == [overall |-> None]

Days == (HardcodedDate - 1) .. (HardcodedDate - 2 + NumDays)

(***************************************************************************)
(* Reference tables of GameHeaderCollector.__init__.                       *)
(***************************************************************************)
api_to_common == [BRO |-> "BKN", OKL |-> "OKC"]

Eastern(d) == [conf |-> "Eastern", div |-> d]

Western(d) == [conf |-> "Western", div |-> d]

\* a table that files the feed's Brooklyn alias under the Western conference
misfiled_team_info ==
  [PHI |-> Eastern("Atlantic"), BKN |-> Eastern("Atlantic"), BRO |-> Western("Atlantic"),
   MIL |-> Eastern("Central"),  LAL |-> Western("Pacific"),  DEN |-> Western("Northwest"),
   OKC |-> Western("Northwest"), OKL |-> Western("Northwest")]

team_info ==
  [ATL |-> Eastern("Southeast"), BOS |-> Eastern("Atlantic"),  BKN |-> Eastern("Atlantic"),
   CHA |-> Eastern("Southeast"), CHI |-> Eastern("Central"),   CLE |-> Eastern("Central"),
   DAL |-> Western("Southwest"), DEN |-> Western("Northwest"), DET |-> Eastern("Central"),
   GSW |-> Western("Pacific"),   HOU |-> Western("Southwest"), IND |-> Eastern("Central"),
   LAC |-> Western("Pacific"),   LAL |-> Western("Pacific"),   MEM |-> Western("Southwest"),
   MIA |-> Eastern("Southeast"), MIL |-> Eastern("Central"),   MIN |-> Western("Northwest"),
   NOP |-> Western("Southwest"), NYK |-> Eastern("Atlantic"),  OKC |-> Western("Northwest"),
   ORL |-> Eastern("Southeast"), PHI |-> Eastern("Atlantic"),  PHX |-> Western("Pacific"),
   POR |-> Western("Northwest"), SAC |-> Western("Pacific"),   SAS |-> Western("Southwest"),
   TOR |-> Eastern("Atlantic"),  UTA |-> Western("Northwest"), WAS |-> Eastern("Southeast"),
   BRO |-> Eastern("Atlantic"),  OKL |-> Western("Northwest")]

convert_to_common_abbr(api_abbr) ==
  IF api_abbr \in DOMAIN api_to_common THEN api_to_common[api_abbr] ELSE api_abbr

\* dict.get(key, default)
Get(d, key, default) == IF key \in DOMAIN d THEN d[key] ELSE default

\* f"{wins}-{losses}"
Fmt(wins, losses) == ToString(wins) \o "-" \o ToString(losses)

(***************************************************************************)
(* The feed.  games.json lists the games of the season that involve the    *)
(* team, restricted to games on or before the day of an until- parameter;  *)
(* standings.json reports the team's wins and losses over the season.      *)
(***************************************************************************)
Involves(game, team) == game.awayTeam = team \/ game.homeTeam = team

Final(game) ==
  /\ game.playedStatus = "COMPLETED"
  /\ DOMAIN game.score = {"awayScoreTotal", "homeScoreTotal"}

\* params: the set of until- days of the request, empty when no date is sent
GamesEndpoint(season, team, params) ==
  SelectSeq(season, LAMBDA g : Involves(g, team) /\ \A until \in params : g.date <= until)

StandingsEndpoint(season, team) ==
  LET won(g) == IF g.awayTeam = team
                THEN g.score.awayScoreTotal > g.score.homeScoreTotal
                ELSE g.score.homeScoreTotal > g.score.awayScoreTotal
      played == {i \in DOMAIN season : Involves(season[i], team) /\ Final(season[i])}
      wins   == Cardinality({i \in played : won(season[i])})
  IN  <<[team |-> team, wins |-> wins, losses |-> Cardinality(played) - wins]>>

\* "if date and date != '20250119': params['date'] = f'until-{date}'"
DateParam(date) == IF date # 0 /\ date # HardcodedDate THEN {date} ELSE {}

\* "if not score or schedule.get('playedStatus') != 'COMPLETED': continue"
Skipped(game) == DOMAIN game.score = {} \/ game.playedStatus # "COMPLETED"

away_score(game) == Get(game.score, "awayScoreTotal", 0)

home_score(game) == Get(game.score, "homeScoreTotal", 0)

(***************************************************************************)
(* _get_overall_record                                                     *)
(***************************************************************************)
RECURSIVE OverallLoop(_, _)
OverallLoop(teams, team) ==
  IF teams = <<>> THEN "0-0"
  ELSE IF Head(teams).team = team
       THEN Fmt(Head(teams).wins, Head(teams).losses)
       ELSE OverallLoop(Tail(teams), team)

get_overall_record(team, standings) == OverallLoop(standings, team)

(***************************************************************************)
(* _calculate_home_away_records                                            *)
(***************************************************************************)
HomeAwayStep(acc, game, team) ==
  IF Skipped(game) THEN acc
  ELSE IF game.awayTeam = team
       THEN IF away_score(game) > home_score(game)
            THEN [acc EXCEPT !.away_wins = @ + 1]
            ELSE [acc EXCEPT !.away_losses = @ + 1]
       ELSE IF game.homeTeam = team
            THEN IF home_score(game) > away_score(game)
                 THEN [acc EXCEPT !.home_wins = @ + 1]
                 ELSE [acc EXCEPT !.home_losses = @ + 1]
            ELSE acc

RECURSIVE HomeAwayLoop(_, _, _)
HomeAwayLoop(games, team, acc) ==
  IF games = <<>> THEN acc
  ELSE HomeAwayLoop(Tail(games), team, HomeAwayStep(acc, Head(games), team))

calculate_home_away_records(team, data) ==
  LET t == HomeAwayLoop(data, team,
             [home_wins |-> 0, home_losses |-> 0, away_wins |-> 0, away_losses |-> 0])
  IN  <<Fmt(t.home_wins, t.home_losses), Fmt(t.away_wins, t.away_losses)>>

(***************************************************************************)
(* Opponent and classification lookups shared by the record calculations.  *)
(***************************************************************************)
\* "opponent = home_team if away_team == team else away_team"
opponent_of(game, team) == IF game.awayTeam = team THEN game.homeTeam ELSE game.awayTeam

\* info_lookup with a conference assumed for an abbreviation team_info does not hold
info_lookup_assumed(abbr, field) ==
  LET common == convert_to_common_abbr(abbr)
  IN  IF common \in DOMAIN team_info THEN team_info[common][field]
      ELSE IF abbr \in DOMAIN team_info THEN team_info[abbr][field]
      ELSE IF field = "conf" THEN "Eastern" ELSE None

\* team_info.get(common, {}).get(field), then the same with the original abbreviation
info_lookup(abbr, field) ==
  LET common == convert_to_common_abbr(abbr)
      first  == IF common \in DOMAIN team_info THEN team_info[common][field] ELSE None
  IN  IF first # None THEN first
      ELSE IF abbr \in DOMAIN team_info THEN team_info[abbr][field] ELSE None

\* "if away_team == team: team_won = away_score > home_score else: home_score > away_score"
team_won(game, team) ==
  IF game.awayTeam = team
  THEN away_score(game) > home_score(game)
  ELSE home_score(game) > away_score(game)

(***************************************************************************)
(* _calculate_vs_conference_records                                        *)
(***************************************************************************)
\* VsConferenceStep with the split taken relative to the team's own conference: the
\* first record for opponents of the own conference, the second for the others
VsConferenceStepRelative(acc, game, team) ==
  IF Skipped(game) THEN acc
  ELSE LET opponent_conf == info_lookup(opponent_of(game, team), "conf")
       IN  IF opponent_conf = None THEN acc
           ELSE IF opponent_conf = info_lookup(team, "conf")
                THEN IF team_won(game, team)
                     THEN [acc EXCEPT !.eastern_wins = @ + 1]
                     ELSE [acc EXCEPT !.eastern_losses = @ + 1]
                ELSE IF team_won(game, team)
                     THEN [acc EXCEPT !.western_wins = @ + 1]
                     ELSE [acc EXCEPT !.western_losses = @ + 1]

VsConferenceStep(acc, game, team) ==
  IF Skipped(game) THEN acc
  ELSE LET opponent_conf == info_lookup(opponent_of(game, team), "conf")
       IN  IF opponent_conf = None THEN acc
           ELSE IF opponent_conf = "Eastern"
                THEN IF team_won(game, team)
                     THEN [acc EXCEPT !.eastern_wins = @ + 1]
                     ELSE [acc EXCEPT !.eastern_losses = @ + 1]
                ELSE IF opponent_conf = "Western"
                     THEN IF team_won(game, team)
                          THEN [acc EXCEPT !.western_wins = @ + 1]
                          ELSE [acc EXCEPT !.western_losses = @ + 1]
                     ELSE acc

RECURSIVE VsConferenceLoop(_, _, _)
VsConferenceLoop(games, team, acc) ==
  IF games = <<>> THEN acc
  ELSE VsConferenceLoop(Tail(games), team, VsConferenceStep(acc, Head(games), team))

calculate_vs_conference_records(team, data) ==
  LET t == VsConferenceLoop(data, team,
             [eastern_wins |-> 0, eastern_losses |-> 0,
              western_wins |-> 0, western_losses |-> 0])
  IN  <<Fmt(t.eastern_wins, t.eastern_losses), Fmt(t.western_wins, t.western_losses)>>

(***************************************************************************)
(* _calculate_conference_record and _calculate_division_record: the same   *)
(* loop over the "conf" and the "div" field of team_info.                  *)
(***************************************************************************)
SameGroupStep(acc, game, team, field, team_group) ==
  IF Skipped(game) THEN acc
  ELSE IF info_lookup(opponent_of(game, team), field) = team_group
       THEN IF team_won(game, team)
            THEN [acc EXCEPT !.wins = @ + 1]
            ELSE [acc EXCEPT !.losses = @ + 1]
       ELSE acc

RECURSIVE SameGroupLoop(_, _, _, _, _)
SameGroupLoop(games, team, field, team_group, acc) ==
  IF games = <<>> THEN acc
  ELSE SameGroupLoop(Tail(games), team, field, team_group,
                     SameGroupStep(acc, Head(games), team, field, team_group))

\* the record over every completed game of the listing, whoever the opponent
record_of_all_games(team, data) ==
  LET t == HomeAwayLoop(data, team,
             [home_wins |-> 0, home_losses |-> 0, away_wins |-> 0, away_losses |-> 0])
  IN  Fmt(t.home_wins + t.away_wins, t.home_losses + t.away_losses)

calculate_conference_record(team, data) ==
  LET team_conf == info_lookup(team, "conf")
      t == SameGroupLoop(data, team, "conf", team_conf, [wins |-> 0, losses |-> 0])
  IN  IF team_conf = None THEN "0-0" ELSE Fmt(t.wins, t.losses)

calculate_division_record(team, data) ==
  LET team_div == info_lookup(team, "div")
      t == SameGroupLoop(data, team, "div", team_div, [wins |-> 0, losses |-> 0])
  IN  IF team_div = None THEN "0-0" ELSE Fmt(t.wins, t.losses)

(***************************************************************************)
(* _calculate_recent_records_and_streak                                    *)
(***************************************************************************)
\* "game_date = str(game_id).split('-')[0] if '-' in str(game_id) else ''":
\* the key is <<>> for '' and <<d>> for the prefix d
game_date(game_id) == IF Len(game_id) > 1 THEN <<game_id[1]>> ELSE <<>>

\* order of two keys as Python orders the strings: '' before every prefix
KeyLE(a, b) == a = <<>> \/ (b # <<>> /\ a[1] <= b[1])

\* the (game_date, game) pairs of the completed games that carry an id
RECURSIVE KeyedGames(_)
KeyedGames(games) ==
  IF games = <<>> THEN <<>>
  ELSE LET game == Head(games)
       IN  IF Skipped(game) \/ game.id = <<>>
           THEN KeyedGames(Tail(games))
           ELSE <<[key |-> game_date(game.id), game |-> game]>> \o KeyedGames(Tail(games))

\* list.sort(key=...) is stable: an entry goes after every entry whose key is not larger
RECURSIVE SortInsert(_, _)
SortInsert(sorted, x) ==
  IF sorted = <<>> THEN <<x>>
  ELSE IF KeyLE(Head(sorted).key, x.key)
       THEN <<Head(sorted)>> \o SortInsert(Tail(sorted), x)
       ELSE <<x>> \o sorted

RECURSIVE SortLoop(_, _)
SortLoop(entries, sorted) ==
  IF entries = <<>> THEN sorted
  ELSE SortLoop(Tail(entries), SortInsert(sorted, Head(entries)))

sorted_games(data) == SortLoop(KeyedGames(data), <<>>)

RECURSIVE ResultsLoop(_, _)
ResultsLoop(entries, team) ==
  IF entries = <<>> THEN <<>>
  ELSE LET game == Head(entries).game
           rest == ResultsLoop(Tail(entries), team)
       IN  IF game.awayTeam = team
           THEN <<away_score(game) > home_score(game)>> \o rest
           ELSE IF game.homeTeam = team
                THEN <<home_score(game) > away_score(game)>> \o rest
                ELSE rest

games_results(team, data) == ResultsLoop(sorted_games(data), team)

\* LastSlice taking the first n results, games_results[:n]
FirstSlice(results, n) == SubSeq(results, 1, IF Len(results) > n THEN n ELSE Len(results))

\* games_results[-n:]
LastSlice(results, n) ==
  SubSeq(results, IF Len(results) > n THEN Len(results) - n + 1 ELSE 1, Len(results))

\* sum(results): the number of True entries
Sum(results) == Cardinality({i \in DOMAIN results : results[i]})

\* games_results[-n:-1]: the window taken without the latest game
record_before_latest(results, n) ==
  IF Len(results) > 0
  THEN LET last_n_results == LastSlice(SubSeq(results, 1, Len(results) - 1), n)
           last_n_wins    == Sum(last_n_results)
       IN  Fmt(last_n_wins, Len(last_n_results) - last_n_wins)
  ELSE Fmt(0, 0)

last_n_record(results, n) ==
  IF Len(results) > 0
  THEN LET last_n_results == LastSlice(results, n)
           last_n_wins    == Sum(last_n_results)
       IN  Fmt(last_n_wins, Len(last_n_results) - last_n_wins)
  ELSE Fmt(0, 0)

\* StreakLoop without the break: every earlier result equal to the latest is counted
RECURSIVE StreakLoopNoBreak(_, _, _, _)
StreakLoopNoBreak(results, i, current_result, streak_count) ==
  IF i < 1 THEN streak_count
  ELSE StreakLoopNoBreak(results, i - 1, current_result,
                         IF results[i] = current_result THEN streak_count + 1
                                                        ELSE streak_count)

\* "for i in range(len(games_results) - 2, -1, -1)": count until the first other result
RECURSIVE StreakLoop(_, _, _, _)
StreakLoop(results, i, current_result, streak_count) ==
  IF i < 1 THEN streak_count
  ELSE IF results[i] = current_result
       THEN StreakLoop(results, i - 1, current_result, streak_count + 1)
       ELSE streak_count

streak_count_of(results) ==
  StreakLoop(results, Len(results) - 1, results[Len(results)], 1)

\* streak_of with a streak of no games reported as "W0"
streak_of_zero(results) ==
  IF Len(results) > 0
  THEN (IF results[Len(results)] THEN "W" ELSE "L") \o ToString(streak_count_of(results))
  ELSE "W0"

streak_of(results) ==
  IF Len(results) > 0
  THEN (IF results[Len(results)] THEN "W" ELSE "L") \o ToString(streak_count_of(results))
  ELSE ""

calculate_recent_records_and_streak(team, data) ==
  LET results == games_results(team, data)
  IN  [last_3  |-> last_n_record(results, 3),
       last_7  |-> last_n_record(results, 7),
       last_12 |-> last_n_record(results, 12),
       streak  |-> streak_of(results)]

(***************************************************************************)
(* get_team_records: one standings request and five games.json requests    *)
(* with the same parameters.                                               *)
(***************************************************************************)
get_team_records(team, season, date) ==
  LET data   == GamesEndpoint(season, team, DateParam(date))
      ha     == calculate_home_away_records(team, data)
      vs     == calculate_vs_conference_records(team, data)
      recent == calculate_recent_records_and_streak(team, data)
  IN  [overall    |-> get_overall_record(team, StandingsEndpoint(season, team)),
       conference |-> calculate_conference_record(team, data),
       division   |-> calculate_division_record(team, data),
       home       |-> ha[1],
       away       |-> ha[2],
       vs_eastern |-> vs[1],
       vs_western |-> vs[2],
       last_3     |-> recent.last_3,
       last_7     |-> recent.last_7,
       last_12    |-> recent.last_12,
       streak     |-> recent.streak]

(***************************************************************************)
(* Game entries the feed can list.                                         *)
(***************************************************************************)
Game(id, date, status, away, home, score) ==
  [id |-> id, date |-> date, playedStatus |-> status,
   awayTeam |-> away, homeTeam |-> home, score |-> score]

Totals(away, home) == [awayScoreTotal |-> away, homeScoreTotal |-> home]

NoTotals == [k \in {} |-> 0]

HomeWin == Totals(100, 110)

AwayWin == Totals(101, 95)

\* completed, well-formed games between classified and unclassified teams ("SEA" has
\* no entry in team_info), all played on the hard-coded day
Pairings ==
  LET with(t, others) == UNION {{<<t, o>>, <<o, t>>} : o \in others}
  IN  with("PHI", {"BRO", "MIL", "LAL", "SEA"}) \cup with("LAL", {"DEN"})

RecordGames ==
  {Game(<<47566>>, HardcodedDate, "COMPLETED", p[1], p[2], sc) :
     p \in Pairings, sc \in {HomeWin, AwayWin}}

Teams == {"PHI", "LAL", "BRO"}

\* listings as the feed may send them: any order of days, ids with or without a date
\* prefix, games in progress, completed games with an empty or a partial score dict
FeedGamesOn(d) ==
  {Game(id, d, "COMPLETED", "BRO", "PHI", sc) :
     id \in {<<47000 + (d % 100)>>, <<d, 1>>},
     sc \in {HomeWin, AwayWin, NoTotals, [homeScoreTotal |-> 110]}}
  \cup
  {Game(<<d, 1>>, d, "LIVE", "BRO", "PHI", HomeWin)}

FeedGames == UNION {FeedGamesOn(d) : d \in Days}

\* a season played in order: game k of the season, one game a day up to the hard-coded
\* day, alternately at home and away, with a date-prefixed id
SeasonDay(k) == HardcodedDate - MaxSeasonGames + k

SeasonGame(k, won) ==
  IF k % 2 = 1
  THEN Game(<<SeasonDay(k), k>>, SeasonDay(k), "COMPLETED", "BRO", "PHI",
            IF won THEN HomeWin ELSE AwayWin)
  ELSE Game(<<SeasonDay(k), k>>, SeasonDay(k), "COMPLETED", "PHI", "BRO",
            IF won THEN AwayWin ELSE HomeWin)

ReportDay == HardcodedDate + 1

Scheduled == Game(<<ReportDay, 1>>, ReportDay, "UNPLAYED", "BRO", "PHI", NoTotals)

Played(season) == Cardinality({i \in DOMAIN season : season[i].playedStatus = "COMPLETED"})

(***************************************************************************)
(* Actions.                                                                *)
(***************************************************************************)
\* the feed lists one more game; a report is computed afresh on each request, so the
\* records of an earlier request do not outlive the listing they came from
FeedList(listing) ==
  /\ feed' = listing
  /\ call' = NoCall
  /\ records' = NoRecords

FeedPublish(game) == FeedList(Append(feed, game))

GetTeamRecords(team, date) ==
  /\ records = NoRecords
  /\ call' = [team |-> team, date |-> date]
  /\ records' = get_team_records(team, feed, date)
  /\ UNCHANGED feed

Init ==
  /\ feed = <<>>
  /\ call = NoCall
  /\ records = NoRecords

PublishRecordGame ==
  /\ Len(feed) < MaxGames
  /\ \E g \in RecordGames : FeedPublish(g)

Report == \E team \in Teams, date \in Days : GetTeamRecords(team, date)

Next == PublishRecordGame \/ Report

Spec == Init /\ [][Next]_vars

PublishFeedGame ==
  /\ Len(feed) < MaxFeedGames
  /\ \E g \in FeedGames : FeedPublish(g)

FeedReport == \E date \in Days : GetTeamRecords("PHI", date)

FeedNext == PublishFeedGame \/ FeedReport

SpecFeed == Init /\ [][FeedNext]_vars

\* the listing of the season holds the scheduled game the report is written for
SeasonInit ==
  /\ feed = <<Scheduled>>
  /\ call = NoCall
  /\ records = NoRecords

\* the season's next game is played; the feed lists the season newest game first,
\* after the scheduled game the report is written for
PlaySeasonGame ==
  /\ Played(feed) < MaxSeasonGames
  /\ \E won \in BOOLEAN :
       FeedList(<<Scheduled, SeasonGame(Played(feed) + 1, won)>> \o Tail(feed))

SeasonReport == GetTeamRecords("PHI", ReportDay)

SeasonNext == PlaySeasonGame \/ SeasonReport

SpecSeason == SeasonInit /\ [][SeasonNext]_vars

(***************************************************************************)
(* What the claims speak of, stated on the listing and not on the code:    *)
(* the listing a request saw, its completed games, who won and where.      *)
(***************************************************************************)
Returned == records # NoRecords

Listing == GamesEndpoint(feed, call.team, DateParam(call.date))

\* a completed game: final status and a total for both sides
IsCompleted(game) ==
  /\ game.playedStatus = "COMPLETED"
  /\ "awayScoreTotal" \in DOMAIN game.score
  /\ "homeScoreTotal" \in DOMAIN game.score

Done == {i \in DOMAIN Listing : IsCompleted(Listing[i]) /\ Involves(Listing[i], call.team)}

AtHome(i) == Listing[i].homeTeam = call.team

Won(i) ==
  IF AtHome(i)
  THEN Listing[i].score.homeScoreTotal > Listing[i].score.awayScoreTotal
  ELSE Listing[i].score.awayScoreTotal > Listing[i].score.homeScoreTotal

Opp(i) == IF AtHome(i) THEN Listing[i].awayTeam ELSE Listing[i].homeTeam

\* classification of an abbreviation the feed uses; team_info lists the feed's own
\* abbreviations (BRO, OKL) next to the common ones
ConfOf(t) == IF t \in DOMAIN team_info THEN team_info[t].conf ELSE None

DivOf(t) == IF t \in DOMAIN team_info THEN team_info[t].div ELSE None

Classified == {i \in Done : ConfOf(Opp(i)) # None}

\* the wins and losses a "W-L" text states
Parse(text) ==
  CHOOSE p \in (0 .. Len(feed)) \X (0 .. Len(feed)) : Fmt(p[1], p[2]) = text

Total(text) == Parse(text)[1] + Parse(text)[2]

\* "W-L" over a set of games
Tally(games) ==
  Fmt(Cardinality({i \in games : Won(i)}), Cardinality({i \in games : ~Won(i)}))

(***************************************************************************)
(* Claims on the categorized records (specification Spec).                 *)
(***************************************************************************)
\* C1: every completed game of the team adds one to exactly one of home wins, home
\* losses, away wins, away losses, keyed by whether the team was the home side, so the
\* four counts sum to overall wins + overall losses; for the games (home win, away
\* loss, home win) the records are overall 2-1, home 2-0, away 0-1.
C1_HomeAwaySumToOverall ==
  Returned =>
    /\ records.home = Tally({i \in Done : AtHome(i)})
    /\ records.away = Tally({i \in Done : ~AtHome(i)})
    /\ Total(records.home) + Total(records.away) = Total(records.overall)
    /\ (/\ Len(Listing) = 3 /\ Done = {1, 2, 3}
        /\ AtHome(1) /\ Won(1) /\ ~AtHome(2) /\ ~Won(2) /\ AtHome(3) /\ Won(3))
       => /\ records.overall = "2-1"
          /\ records.home = "2-0"
          /\ records.away = "0-1"

\* C2: overall wins + overall losses equals the number of completed games of the team
\* in the game list from which its other records are counted.
C2_OverallCountsListing ==
  Returned => Total(records.overall) = Cardinality(Done)

\* C3: when every opponent is classified, every completed game falls in exactly one of
\* division, conference-other (conference record minus division record) and
\* cross-conference, and the three buckets sum to overall wins + overall losses.
C3_BucketsSumToOverall ==
  (Returned /\ Classified = Done) =>
    LET own      == ConfOf(call.team)
        division == {i \in Done : DivOf(Opp(i)) = DivOf(call.team)}
        confOther == {i \in Done : ConfOf(Opp(i)) = own} \ division
        cross    == {i \in Done : ConfOf(Opp(i)) # own}
        conf     == Parse(records.conference)
        div      == Parse(records.division)
        other    == Parse(IF own = "Eastern" THEN records.vs_western
                                             ELSE records.vs_eastern)
    IN  /\ records.division = Tally(division)
        /\ Fmt(conf[1] - div[1], conf[2] - div[2]) = Tally(confOther)
        /\ Fmt(other[1], other[2]) = Tally(cross)
        /\ Total(records.division) + (Total(records.conference) - Total(records.division))
             + (other[1] + other[2]) = Total(records.overall)

C10_AbsoluteSplits ==
  Returned =>
    /\ records.vs_eastern = Tally({i \in Done : ConfOf(Opp(i)) = "Eastern"})
    /\ records.vs_western = Tally({i \in Done : ConfOf(Opp(i)) = "Western"})
    /\ Classified = Done =>
         Total(records.vs_eastern) + Total(records.vs_western) = Cardinality(Done)

C10_Witness ==
  /\ Returned
  /\ call.team = "LAL"
  /\ Classified = Done
  /\ records.vs_eastern = "1-0"
  /\ records.vs_western = "0-1"

(***************************************************************************)
(* Claims on malformed entries and on the order of the listing             *)
(* (specification SpecFeed).                                               *)
(***************************************************************************)
\* the records a listing yields, the overall record (read from the standings) aside
Aggregates(team, listing) ==
  LET ha     == calculate_home_away_records(team, listing)
      vs     == calculate_vs_conference_records(team, listing)
      recent == calculate_recent_records_and_streak(team, listing)
  IN  <<ha, vs, recent,
        calculate_conference_record(team, listing),
        calculate_division_record(team, listing)>>

\* C4: a game that lacks the COMPLETED status, or lacks a numeric score for either
\* side, is excluded from every aggregation: no win or loss count, the streak and the
\* last-N records are what they are without that game.
C4_IncompleteGamesExcluded ==
  Returned =>
    Aggregates(call.team, Listing) = Aggregates(call.team, SelectSeq(Listing, IsCompleted))

\* every order in which the feed may list the same games
Orders(listing) ==
  {[i \in DOMAIN listing |-> listing[f[i]]] : f \in Permutations(DOMAIN listing)}

DistinctDates(listing) ==
  \A i, j \in DOMAIN listing : i # j => listing[i].date # listing[j].date

\* C7: the last-3/7/12 records and the streak do not depend on the order of the games
\* in the input list: every permutation of the same completed games with distinct
\* dates yields the same records and streak.
C7_OrderIndependent ==
  (Returned /\ Done = DOMAIN Listing /\ DistinctDates(Listing)) =>
    \A other \in Orders(Listing) :
      calculate_recent_records_and_streak(call.team, other)
        = calculate_recent_records_and_streak(call.team, Listing)

(***************************************************************************)
(* Claims on the last-N records and the streak (specification SpecSeason). *)
(* Chronology is read from the dates of the completed games.               *)
(***************************************************************************)
\* the outcomes of the completed games of the listing, oldest first
Chronicle ==
  LET listing   == Listing
      done      == {i \in DOMAIN listing :
                      IsCompleted(listing[i]) /\ Involves(listing[i], call.team)}
      before(i) == Cardinality({j \in done : listing[j].date < listing[i].date})
      won(i)    == IF listing[i].homeTeam = call.team
                   THEN listing[i].score.homeScoreTotal > listing[i].score.awayScoreTotal
                   ELSE listing[i].score.awayScoreTotal > listing[i].score.homeScoreTotal
  IN  [k \in 1 .. Cardinality(done) |-> won(CHOOSE i \in done : before(i) = k - 1)]

\* the length of the unbroken run of the latest outcome that ends at the latest game
TrailingRun(outcomes) ==
  Cardinality({i \in DOMAIN outcomes :
                 \A j \in i .. Len(outcomes) : outcomes[j] = outcomes[Len(outcomes)]})

Letter(won) == IF won THEN "W" ELSE "L"

\* C5: the streak is the letter of the most recent game's outcome followed by the
\* length of the maximal run of that outcome ending at the most recent game of the
\* full chronological list; for [W, W, L, W, W, W] it is "W3".
C5_StreakIsTrailingRun ==
  Returned =>
    LET outcomes == Chronicle
    IN  Len(outcomes) > 0 =>
          /\ records.streak =
               Letter(outcomes[Len(outcomes)]) \o ToString(TrailingRun(outcomes))
          /\ outcomes = <<TRUE, TRUE, FALSE, TRUE, TRUE, TRUE>> => records.streak = "W3"

C5_Witness ==
  /\ Returned
  /\ Chronicle = <<TRUE, TRUE, FALSE, TRUE, TRUE, TRUE>>
  /\ records.streak = "W3"

Min(a, b) == IF a < b THEN a ELSE b

\* "W-L" over the min(n, games) most recent outcomes
RecentTally(outcomes, n) ==
  LET counted == {i \in DOMAIN outcomes : i > Len(outcomes) - n}
      wins    == Cardinality({i \in counted : outcomes[i]})
  IN  Fmt(wins, Min(n, Len(outcomes)) - wins)

\* C6: for N in {3, 7, 12} the last-N record counts exactly the min(N, completed games)
\* most recent completed games: wins + losses equals that minimum, with no padding and
\* no completed game left out (12-game window, 5 completed games: a record over 5).
C6_LastNCountsRecentGames ==
  Returned =>
    LET outcomes == Chronicle
    IN  /\ records.last_3 = RecentTally(outcomes, 3)
        /\ records.last_7 = RecentTally(outcomes, 7)
        /\ records.last_12 = RecentTally(outcomes, 12)

C6_Witness ==
  /\ Returned
  /\ Chronicle = <<TRUE, TRUE, FALSE, FALSE, FALSE>>
  /\ records.last_12 = "2-3"
  /\ records.last_7 = "2-3"
  /\ records.last_3 = "0-3"

\* C8: with zero completed games the streak is the empty string (never "W0" or "L0");
\* with at least one completed game the streak length is at least 1 and at most the
\* number of completed games.
C8_StreakBounds ==
  Returned =>
    LET games == Len(Chronicle)
    IN  IF games = 0
        THEN records.streak = ""
        ELSE \E k \in 1 .. games :
               records.streak \in {"W" \o ToString(k), "L" \o ToString(k)}

C8_Witness ==
  /\ Returned
  /\ Len(feed) > 0
  /\ Len(Chronicle) = 0
  /\ records.streak = ""

(***************************************************************************)
(* RollingStatsCollector: team averages over the last 3, 7 and 12 games.   *)
(*                                                                         *)
(* A game log of team_gamelogs.json is a dict, modelled as the function on *)
(* the keys the feed supplied among team, game and stats; game holds       *)
(* startTime and stats the box score: offense, defense, fieldGoals,        *)
(* freeThrows and rebounds, each a dict of its own.  A startTime text      *)
(* "YYYY-MM-DDThh:..." is <<YYYYMMDD, hh>>, and '' is <<>>.                 *)
(* Averages and percentages are held in tenths: 105.0 is 1050.             *)
(***************************************************************************)
EmptyDict == [k \in {} |-> 0]

\* an exception that leaves the call
Raise(error) == [raised |-> error]

\* a value that may be None: <<>> for None, <<v>> for the value v
NoValue == <<>>

Some(v) == <<v>>

min(a, b) == IF a < b THEN a ELSE b

\* num / den in tenths, cut after the first decimal
floor1(num, den) == (10 * num) \div den

\* round(num / den, 1) in tenths, ties to the even tenth: what Python's round gives
\* for the per-game averages and for the percentages of the box scores listed below
round1(num, den) ==
  LET q == (10 * num) \div den
      r == (10 * num) % den
  IN  IF 2 * r > den \/ (2 * r = den /\ q % 2 = 1) THEN q + 1 ELSE q

SliceAll(game_logs, stop) == game_logs

\* game_logs[:stop]
Slice(game_logs, stop) ==
  IF stop >= 0
  THEN SubSeq(game_logs, 1, min(stop, Len(game_logs)))
  ELSE IF Len(game_logs) + stop > 0
       THEN SubSeq(game_logs, 1, Len(game_logs) + stop)
       ELSE <<>>

two_point_never(fg) == FALSE

\* "if 'fg2PtMade' in fg and 'fg2PtAtt' in fg"
two_point_reported(fg) == {"fg2PtMade", "fg2PtAtt"} \subseteq DOMAIN fg

fg2_made_of(fg) ==
  IF two_point_reported(fg)
  THEN Get(fg, "fg2PtMade", 0)
  ELSE Get(fg, "fgMade", 0) - Get(fg, "fg3PtMade", 0)

fg2_att_of(fg) ==
  IF two_point_reported(fg)
  THEN Get(fg, "fg2PtAtt", 0)
  ELSE Get(fg, "fgAtt", 0) - Get(fg, "fg3PtAtt", 0)

\* one pass of "for log in games_to_avg"
TotalsStep(totals, log) ==
  LET stats   == Get(log, "stats", EmptyDict)
      offense == Get(stats, "offense", EmptyDict)
      defense == Get(stats, "defense", EmptyDict)
      fg      == Get(stats, "fieldGoals", EmptyDict)
      ft      == Get(stats, "freeThrows", EmptyDict)
      reb     == Get(stats, "rebounds", EmptyDict)
  IN  [pts         |-> totals.pts + Get(offense, "pts", 0),
       pts_against |-> totals.pts_against + Get(defense, "ptsAgainst", 0),
       fg_made     |-> totals.fg_made + Get(fg, "fgMade", 0),
       fg_att      |-> totals.fg_att + Get(fg, "fgAtt", 0),
       fg3_made    |-> totals.fg3_made + Get(fg, "fg3PtMade", 0),
       fg3_att     |-> totals.fg3_att + Get(fg, "fg3PtAtt", 0),
       fg2_made    |-> totals.fg2_made + fg2_made_of(fg),
       fg2_att     |-> totals.fg2_att + fg2_att_of(fg),
       ft_made     |-> totals.ft_made + Get(ft, "ftMade", 0),
       ft_att      |-> totals.ft_att + Get(ft, "ftAtt", 0),
       off_reb     |-> totals.off_reb + Get(reb, "offReb", 0),
       def_reb     |-> totals.def_reb + Get(reb, "defReb", 0),
       reb         |-> totals.reb + Get(reb, "reb", 0),
       ast         |-> totals.ast + Get(offense, "ast", 0),
       stl         |-> totals.stl + Get(defense, "stl", 0),
       blk         |-> totals.blk + Get(defense, "blk", 0),
       tov         |-> totals.tov + Get(defense, "tov", 0)]

ZeroTotals ==
  [pts |-> 0, pts_against |-> 0, fg_made |-> 0, fg_att |-> 0, fg3_made |-> 0,
   fg3_att |-> 0, fg2_made |-> 0, fg2_att |-> 0, ft_made |-> 0, ft_att |-> 0,
   off_reb |-> 0, def_reb |-> 0, reb |-> 0, ast |-> 0, stl |-> 0, blk |-> 0, tov |-> 0]

RECURSIVE TotalsLoop(_, _)
TotalsLoop(games_to_avg, totals) ==
  IF games_to_avg = <<>> THEN totals
  ELSE TotalsLoop(Tail(games_to_avg), TotalsStep(totals, Head(games_to_avg)))

no_stats == [games_included |-> 0]

\* _empty_stats
empty_stats ==
  [ps |-> 0, pa |-> 0, fg |-> 0, fga |-> 0, fg_pct |-> 0,
   three_p |-> 0, three_pa |-> 0, three_pct |-> 0,
   two_p |-> 0, two_pa |-> 0, two_pct |-> 0,
   ft |-> 0, fta |-> 0, ft_pct |-> 0,
   orb |-> 0, drb |-> 0, trb |-> 0,
   ast |-> 0, stl |-> 0, blk |-> 0, tov |-> 0,
   games_included |-> 0]

attempts_unguarded(att) == TRUE

\* "... if totals['fg_att'] > 0 else 0"
attempts_guard(att) == att > 0

\* round((made / att * 100) if att > 0 else 0, 1)
percentage(made, att) == IF attempts_guard(att) THEN round1(100 * made, att) ELSE 0

\* the numbers calculate_averages divides by
divisors(totals, actual_games) ==
  {actual_games} \cup
  {att \in {totals.fg_att, totals.fg3_att, totals.fg2_att, totals.ft_att} :
     attempts_guard(att)}

averages_of(totals, actual_games) ==
  [ps        |-> round1(totals.pts, actual_games),
   pa        |-> round1(totals.pts_against, actual_games),
   fg        |-> round1(totals.fg_made, actual_games),
   fga       |-> round1(totals.fg_att, actual_games),
   fg_pct    |-> percentage(totals.fg_made, totals.fg_att),
   three_p   |-> round1(totals.fg3_made, actual_games),
   three_pa  |-> round1(totals.fg3_att, actual_games),
   three_pct |-> percentage(totals.fg3_made, totals.fg3_att),
   two_p     |-> round1(totals.fg2_made, actual_games),
   two_pa    |-> round1(totals.fg2_att, actual_games),
   two_pct   |-> percentage(totals.fg2_made, totals.fg2_att),
   ft        |-> round1(totals.ft_made, actual_games),
   fta       |-> round1(totals.ft_att, actual_games),
   ft_pct    |-> percentage(totals.ft_made, totals.ft_att),
   orb       |-> round1(totals.off_reb, actual_games),
   drb       |-> round1(totals.def_reb, actual_games),
   trb       |-> round1(totals.reb, actual_games),
   ast       |-> round1(totals.ast, actual_games),
   stl       |-> round1(totals.stl, actual_games),
   blk       |-> round1(totals.blk, actual_games),
   tov       |-> round1(totals.tov, actual_games),
   games_included |-> actual_games]

one_game_fewer(num_games, available) == min(num_games, available) - 1

\* "game_logs[:min(num_games, len(game_logs))]"
games_to_average(num_games, available) == min(num_games, available)

\* game_logs: NoValue when the caller passes None, Some(list) otherwise
calculate_averages(game_logs, num_games) ==
  IF game_logs = NoValue \/ Len(game_logs[1]) = 0
  THEN empty_stats
  ELSE LET games_to_avg == Slice(game_logs[1],
                                 games_to_average(num_games, Len(game_logs[1])))
           actual_games == Len(games_to_avg)
           totals       == TotalsLoop(games_to_avg, ZeroTotals)
       IN  IF actual_games = 0
           THEN empty_stats
           ELSE IF 0 \in divisors(totals, actual_games)
                THEN Raise("ZeroDivisionError")
                ELSE averages_of(totals, actual_games)

(***************************************************************************)
(* get_team_game_logs                                                      *)
(***************************************************************************)
common_to_api == [BKN |-> "BRO", OKC |-> "OKL"]

convert_to_api_abbr(common_abbr) ==
  IF common_abbr \in DOMAIN common_to_api THEN common_to_api[common_abbr] ELSE common_abbr

\* "'limit': 12"
LogLimit == 12

\* team_gamelogs.json: the logs of the team, at most limit of them
TeamGamelogsEndpoint(season, team, limit) ==
  [gamelogs |-> Slice(SelectSeq(season, LAMBDA log : Get(log, "team", None) = team), limit)]

\* game.get('startTime', '')[:10].replace('-', '')
log_date(log) ==
  LET startTime == Get(Get(log, "game", EmptyDict), "startTime", <<>>)
  IN  IF startTime = <<>> THEN <<>> ELSE <<startTime[1]>>

\* "if game_date < before_date", a comparison of texts: '' is below every date
before(date_text, before_date) == date_text = <<>> \/ date_text[1] < before_date

\* x['game']['startTime'] is there to be read
HasSortKey(log) == "game" \in DOMAIN log /\ "startTime" \in DOMAIN log.game

\* startTime texts in lexicographic order
TimeLess(a, b) ==
  \/ Len(a) = 0 /\ Len(b) > 0
  \/ Len(a) > 0 /\ Len(b) > 0 /\ (a[1] < b[1] \/ (a[1] = b[1] /\ a[2] < b[2]))

\* the place of x in a list sorted newest first, behind the entries of equal startTime
RECURSIVE InsertNewestFirst(_, _)
InsertNewestFirst(sorted, x) ==
  IF sorted = <<>> THEN <<x>>
  ELSE IF TimeLess(Head(sorted).game.startTime, x.game.startTime)
       THEN <<x>> \o sorted
       ELSE <<Head(sorted)>> \o InsertNewestFirst(Tail(sorted), x)

\* game_logs.sort(key=lambda x: x['game']['startTime'], reverse=True)
RECURSIVE SortNewestFirst(_, _)
SortNewestFirst(game_logs, sorted) ==
  IF game_logs = <<>> THEN sorted
  ELSE SortNewestFirst(Tail(game_logs), InsertNewestFirst(sorted, Head(game_logs)))

Answered(data) ==
  /\ data # NoValue
  /\ DOMAIN data[1] # {}
  /\ "gamelogs" \in DOMAIN data[1]

\* the logs that pass "if game_date < before_date"
logs_before(data, before_date) ==
  SelectSeq(data[1].gamelogs, LAMBDA log : before(log_date(log), before_date))

\* the sort key of a log that passed the filter cannot be read: KeyError
get_team_game_logs_raises(data, before_date) ==
  /\ Answered(data)
  /\ \E i \in DOMAIN logs_before(data, before_date) :
       ~HasSortKey(logs_before(data, before_date)[i])

\* data: NoValue when the request failed, Some(dict) otherwise
get_team_game_logs(data, before_date) ==
  IF ~Answered(data)
  THEN <<>>
  ELSE Slice(SortNewestFirst(logs_before(data, before_date), <<>>), LogLimit)

(***************************************************************************)
(* collect: the rolling statistics of the two teams of a matchup           *)
(***************************************************************************)
empty_windows == [last_3 |-> empty_stats, last_7 |-> empty_stats, last_12 |-> empty_stats]

Raised(value) == "raised" \in DOMAIN value

\* "if away_logs:" and the three calculate_averages calls
team_windows(game_logs) ==
  IF Len(game_logs) = 0 THEN empty_windows
  ELSE LET last_3  == calculate_averages(Some(game_logs), 3)
           last_7  == calculate_averages(Some(game_logs), 7)
           last_12 == calculate_averages(Some(game_logs), 12)
       IN  IF Raised(last_3) THEN last_3
           ELSE IF Raised(last_7) THEN last_7
           ELSE IF Raised(last_12) THEN last_12
           ELSE [last_3 |-> last_3, last_7 |-> last_7, last_12 |-> last_12]

\* away_data, home_data: what the two team_gamelogs.json requests returned
collect(away_data, home_data, date) ==
  IF get_team_game_logs_raises(away_data, date) \/ get_team_game_logs_raises(home_data, date)
  THEN Raise("KeyError")
  ELSE LET away_stats == team_windows(get_team_game_logs(away_data, date))
           home_stats == team_windows(get_team_game_logs(home_data, date))
       IN  IF Raised(away_stats) THEN away_stats
           ELSE IF Raised(home_stats) THEN home_stats
           ELSE [away_rolling_stats |-> away_stats, home_rolling_stats |-> home_stats]

(***************************************************************************)
(* Game logs the feed can list.                                            *)
(***************************************************************************)
Log(team, startTime, stats) ==
  [team |-> team, game |-> [startTime |-> startTime], stats |-> stats]

BoxScore(pts, ptsAgainst, fieldGoals, freeThrows) ==
  [offense    |-> [pts |-> pts, ast |-> 25],
   defense    |-> [ptsAgainst |-> ptsAgainst, stl |-> 8, blk |-> 5, tov |-> 14],
   fieldGoals |-> fieldGoals,
   freeThrows |-> freeThrows,
   rebounds   |-> [offReb |-> 10, defReb |-> 33, reb |-> 43]]

\* a box score with a two-point line of its own, one without, one with the made
\* two-pointers only, and one of a game without a shot
ReportedShots ==
  [fgMade |-> 40, fgAtt |-> 85, fg3PtMade |-> 12, fg3PtAtt |-> 33,
   fg2PtMade |-> 27, fg2PtAtt |-> 50]

DerivedShots == [fgMade |-> 38, fgAtt |-> 80, fg3PtMade |-> 10, fg3PtAtt |-> 30]

OneSidedShots ==
  [fgMade |-> 40, fgAtt |-> 85, fg3PtMade |-> 12, fg3PtAtt |-> 33, fg2PtMade |-> 27]

NoShots == [fgMade |-> 0, fgAtt |-> 0, fg3PtMade |-> 0, fg3PtAtt |-> 0]

FreeThrows == [ftMade |-> 15, ftAtt |-> 20]

BoxScores ==
  {BoxScore(110, 102, ReportedShots, FreeThrows),
   BoxScore(100, 104, DerivedShots, FreeThrows),
   BoxScore(105, 99, OneSidedShots, FreeThrows),
   BoxScore(0, 0, NoShots, EmptyDict)}

\* the days around the day the report is written for
LogDays == (ReportDay - 2) .. ReportDay

\* entries without game, without startTime, without stats
MalformedLogs ==
  {[team |-> "PHI", stats |-> BoxScore(100, 104, DerivedShots, FreeThrows)],
   [team |-> "PHI", game |-> EmptyDict, stats |-> BoxScore(100, 104, DerivedShots, FreeThrows)],
   [team |-> "PHI", game |-> [startTime |-> <<ReportDay - 1, 0>>]]}

FeedLogs ==
  {Log("PHI", <<d, 0>>, box) : d \in LogDays, box \in BoxScores}
  \cup {Log("BRO", <<ReportDay - 1, 0>>, BoxScore(100, 104, DerivedShots, FreeThrows))}
  \cup MalformedLogs

\* what a team_gamelogs.json request can come back with: nothing (the request
\* failed), a body without gamelogs, or the listing
Responses(team) ==
  {NoValue, Some(EmptyDict), Some(TeamGamelogsEndpoint(feed, team, LogLimit))}

MaxLogs == 2

PublishGameLog ==
  /\ Len(feed) < MaxLogs
  /\ \E log \in FeedLogs : FeedPublish(log)

\* RollingStatsCollector.collect(away_team, home_team, date)
CollectRollingStats(away_team, home_team, date) ==
  /\ records = NoRecords
  /\ \E away_data \in Responses(convert_to_api_abbr(away_team)),
        home_data \in Responses(convert_to_api_abbr(home_team)) :
       /\ call' = [away_team |-> away_team, home_team |-> home_team, date |-> date,
                   away_data |-> away_data, home_data |-> home_data]
       /\ records' = collect(away_data, home_data, date)
  /\ UNCHANGED feed

RollingReport == CollectRollingStats("BKN", "PHI", ReportDay)

LogsNext == PublishGameLog \/ RollingReport

SpecLogs == Init /\ [][LogsNext]_vars

(***************************************************************************)
(* calculate_averages on its own: a list of game logs, newest first as     *)
(* get_team_game_logs returns it, and a window size.                       *)
(***************************************************************************)
MaxWindowGames == 13

VariedGames == 5

WindowPoints(k) == IF k <= VariedGames THEN {100, 105, 110} ELSE {100 + k}

\* the k-th newest game of the team before the day of the report
WindowLog(k, pts) ==
  Log("PHI", <<ReportDay - k, 0>>, BoxScore(pts, 100, DerivedShots, FreeThrows))

WindowSizes == {-1, 0, 1, 3, 7, 12}

AppendWindowLog ==
  /\ Len(feed) < MaxWindowGames
  /\ \E pts \in WindowPoints(Len(feed) + 1) : FeedPublish(WindowLog(Len(feed) + 1, pts))

\* calculate_averages(game_logs, num_games), game_logs the list or None
CalculateAverages(supplied, num_games) ==
  /\ records = NoRecords
  /\ call' = [supplied |-> supplied, num_games |-> num_games]
  /\ records' = calculate_averages(IF supplied THEN Some(feed) ELSE NoValue, num_games)
  /\ UNCHANGED feed

Average == \E supplied \in BOOLEAN, num_games \in WindowSizes :
             CalculateAverages(supplied, num_games)

AveragesNext == AppendWindowLog \/ Average

SpecAverages == Init /\ [][AveragesNext]_vars

(***************************************************************************)
(* What the claims on the averages speak of: the per-game numbers of a     *)
(* box score under the names of the statistics, and their sums.            *)
(***************************************************************************)
RECURSIVE SumOf(_)
SumOf(values) == IF values = <<>> THEN 0 ELSE Head(values) + SumOf(Tail(values))

\* the per-game numbers of a complete box score without a two-point line
PerGame(log) ==
  LET s == log.stats
  IN  [ps |-> s.offense.pts, pa |-> s.defense.ptsAgainst,
       fg |-> s.fieldGoals.fgMade, fga |-> s.fieldGoals.fgAtt,
       three_p |-> s.fieldGoals.fg3PtMade, three_pa |-> s.fieldGoals.fg3PtAtt,
       two_p |-> s.fieldGoals.fgMade - s.fieldGoals.fg3PtMade,
       two_pa |-> s.fieldGoals.fgAtt - s.fieldGoals.fg3PtAtt,
       ft |-> s.freeThrows.ftMade, fta |-> s.freeThrows.ftAtt,
       orb |-> s.rebounds.offReb, drb |-> s.rebounds.defReb, trb |-> s.rebounds.reb,
       ast |-> s.offense.ast, stl |-> s.defense.stl, blk |-> s.defense.blk,
       tov |-> s.defense.tov]

PerGameFields ==
  {"ps", "pa", "fg", "fga", "three_p", "three_pa", "two_p", "two_pa", "ft", "fta",
   "orb", "drb", "trb", "ast", "stl", "blk", "tov"}

\* the sum of a statistic over the first count logs of a list
WindowTotal(logs, count, field) == SumOf([i \in 1 .. count |-> PerGame(logs[i])[field]])

\* tenths is total / games to the nearest tenth
NearestTenth(tenths, total, games) ==
  LET off == 10 * total - tenths * games
  IN  2 * off <= games /\ 2 * off >= 0 - games

\* C11: for each window size N, calculate_averages divides every per-game total by
\* min(N, available games), never by N itself, and games_included equals that minimum,
\* so it exceeds neither N nor the number of available games.
C11_DividesByActualGames ==
  (Returned /\ "supplied" \in DOMAIN call /\ call.supplied /\ call.num_games >= 1) =>
    LET actual == Min(call.num_games, Len(feed))
    IN  /\ records.games_included = actual
        /\ records.games_included <= call.num_games
        /\ records.games_included <= Len(feed)
        /\ actual > 0 =>
             \A field \in PerGameFields :
               NearestTenth(records[field], WindowTotal(feed, actual, field), actual)

C11_Witness ==
  /\ Returned
  /\ "supplied" \in DOMAIN call /\ call.supplied
  /\ call.num_games = 7
  /\ Len(feed) = 9
  /\ records.games_included = 7
  /\ feed[1].stats.offense.pts = 110 /\ feed[2].stats.offense.pts = 100
  /\ records.ps > 1000

(***************************************************************************)
(* What the claims on the rolling statistics speak of: the two sides of    *)
(* the matchup, the logs the feed holds for a side, the three windows.     *)
(***************************************************************************)
Sides == {"away", "home"}

SideTeam(side) ==
  convert_to_api_abbr(IF side = "away" THEN call.away_team ELSE call.home_team)

SideData(side) == IF side = "away" THEN call.away_data ELSE call.home_data

SideStats(side) ==
  IF side = "away" THEN records.away_rolling_stats ELSE records.home_rolling_stats

\* the request of the side came back with a listing
Listed(side) == SideData(side) # NoValue /\ "gamelogs" \in DOMAIN SideData(side)[1]

TeamLogs(side) == SelectSeq(feed, LAMBDA log : log.team = SideTeam(side))

Windows == {"last_3", "last_7", "last_12"}

WindowSize(window) ==
  IF window = "last_3" THEN 3 ELSE IF window = "last_7" THEN 7 ELSE 12

\* collect came back with the statistics of both sides
Collected == Returned /\ "away_data" \in DOMAIN call /\ ~Raised(records)

\* C12: rolling averages are taken over the N most recent games as of the cutoff, and a
\* game played on the cutoff date itself is included: only games dated after the as-of
\* date are left out.
C12_CutoffInclusive ==
  Collected =>
    \A side \in Sides : Listed(side) =>
      LET logs   == TeamLogs(side)
          asOf   == {i \in DOMAIN logs : logs[i].game.startTime[1] <= call.date}
      IN  \A window \in Windows :
            SideStats(side)[window].games_included
              = Min(WindowSize(window), Cardinality(asOf))

\* C15: the aggregation never raises because of a malformed game entry (missing game,
\* start time or stats): the entry is skipped and the remaining games are aggregated.
C15_MalformedSkipped ==
  (Returned /\ "away_data" \in DOMAIN call) => ~Raised(records)

\* the four kinds of shots: the statistic of the attempts per game and of the percentage
ShotKinds ==
  {<<"fga", "fg_pct">>, <<"three_pa", "three_pct">>, <<"two_pa", "two_pct">>,
   <<"fta", "ft_pct">>}

\* C16: no ratio divides by zero: each of the field-goal, three-point, two-point and
\* free-throw percentages is 0 when the attempts of that kind in the window are 0, and
\* no per-game average is divided by a zero game count.
C16_NoDivisionByZero ==
  (Returned /\ "away_data" \in DOMAIN call) =>
    /\ records # Raise("ZeroDivisionError")
    /\ ~Raised(records) =>
         \A side \in Sides, window \in Windows, kind \in ShotKinds :
           SideStats(side)[window][kind[1]] = 0 => SideStats(side)[window][kind[2]] = 0

C16_Witness ==
  /\ Collected
  /\ Len(feed) = 1
  /\ feed[1] = Log("PHI", <<ReportDay - 1, 0>>, BoxScore(0, 0, NoShots, EmptyDict))
  /\ records.home_rolling_stats.last_3.games_included = 1
  /\ records.home_rolling_stats.last_3.fga = 0
  /\ records.home_rolling_stats.last_3.fg_pct = 0
  /\ records.home_rolling_stats.last_3.ft_pct = 0

\* the 21 statistics of a window, and its game count
StatFields ==
  {"ps", "pa", "fg", "fga", "fg_pct", "three_p", "three_pa", "three_pct",
   "two_p", "two_pa", "two_pct", "ft", "fta", "ft_pct", "orb", "drb", "trb",
   "ast", "stl", "blk", "tov"}

AllZero(stats) == \A field \in DOMAIN stats : stats[field] = 0

\* C18: when a window has zero games, and when fetching a team's logs fails, the result
\* still holds the three windows last_3, last_7 and last_12, each with the same 21
\* statistics and games_included as a window with games, every one of them 0.
C18_UniformShape ==
  Collected =>
    \A side \in Sides :
      /\ DOMAIN SideStats(side) = Windows
      /\ \A window \in Windows :
           /\ DOMAIN SideStats(side)[window] = StatFields \cup {"games_included"}
           /\ Cardinality(StatFields) = 21
           /\ SideStats(side)[window].games_included = 0 => AllZero(SideStats(side)[window])
      /\ ~Listed(side) =>
           \A window \in Windows : SideStats(side)[window].games_included = 0

C18_Witness ==
  /\ Collected
  /\ call.home_data = NoValue
  /\ Len(TeamLogs("home")) = 1
  /\ AllZero(records.home_rolling_stats.last_7)
  /\ Listed("away")
  /\ records.away_rolling_stats.last_7.games_included = 1
  /\ records.away_rolling_stats.last_7.ps = 1000

\* the two-pointers of a game: the two-point line of the box score when it has one
\* (made and attempted), field goals minus three-pointers otherwise
TwoPointers(log) ==
  LET fg == Get(Get(log, "stats", EmptyDict), "fieldGoals", EmptyDict)
  IN  IF "fg2PtMade" \in DOMAIN fg /\ "fg2PtAtt" \in DOMAIN fg
      THEN [made |-> fg.fg2PtMade, att |-> fg.fg2PtAtt]
      ELSE [made |-> Get(fg, "fgMade", 0) - Get(fg, "fg3PtMade", 0),
            att  |-> Get(fg, "fgAtt", 0) - Get(fg, "fg3PtAtt", 0)]

\* the logs of a side that collect averages: those dated before the day of the report
Averaged(side) ==
  SelectSeq(TeamLogs(side), LAMBDA log : log.game.startTime[1] < call.date)

\* C19: for each game of a window, two-point made and attempted are the directly
\* reported two-point line when the box score supplies one and field goals minus
\* three-pointers otherwise, for made and attempted alike; the two-point percentage is
\* computed from the resulting window totals.
C19_TwoPointers ==
  Collected =>
    \A side \in Sides : (Listed(side) /\ Len(Averaged(side)) \in 1 .. 3) =>
      LET games == Averaged(side)
          made  == SumOf([i \in DOMAIN games |-> TwoPointers(games[i]).made])
          att   == SumOf([i \in DOMAIN games |-> TwoPointers(games[i]).att])
      IN  \A window \in Windows :
            /\ NearestTenth(SideStats(side)[window].two_p, made, Len(games))
            /\ NearestTenth(SideStats(side)[window].two_pa, att, Len(games))
            /\ IF att > 0
               THEN NearestTenth(SideStats(side)[window].two_pct, 100 * made, att)
               ELSE SideStats(side)[window].two_pct = 0

C19_Witness ==
  /\ Collected
  /\ Listed("home")
  /\ feed = <<Log("PHI", <<ReportDay - 1, 0>>, BoxScore(110, 102, ReportedShots, FreeThrows)),
              Log("PHI", <<ReportDay - 2, 0>>, BoxScore(105, 99, OneSidedShots, FreeThrows))>>
  /\ records.home_rolling_stats.last_3.two_p = 275
  /\ records.home_rolling_stats.last_3.two_pa = 510
  /\ records.home_rolling_stats.last_3.two_pct = 539

(***************************************************************************)
(* Claims on calculate_averages (specification SpecAverages).              *)
(***************************************************************************)
AveragesCalled == Returned /\ "supplied" \in DOMAIN call

KnownSizes == {3, 7, 12}

\* C17: contract violations fail fast: calling the averaging with no game list, or
\* with a window size outside the known sizes 3, 7 and 12 (0 or a negative size, say),
\* raises an error instead of returning a statistics structure.
C17_ContractViolationsRaise ==
  (AveragesCalled /\ (~call.supplied \/ call.num_games \notin KnownSizes)) =>
    Raised(records)

\* C20: a window size at least the number of available games gives the averages over
\* all available games, so any two such sizes give equal results.
C20_WholeListAverage ==
  (AveragesCalled /\ call.supplied /\ call.num_games >= Len(feed)) =>
    /\ records.games_included = Len(feed)
    /\ Len(feed) > 0 =>
         \A field \in PerGameFields :
           NearestTenth(records[field], WindowTotal(feed, Len(feed), field), Len(feed))
    /\ \A other \in WindowSizes :
         other >= Len(feed) => records = calculate_averages(Some(feed), other)

C20_Witness ==
  /\ AveragesCalled /\ call.supplied
  /\ call.num_games = 7
  /\ Len(feed) = 5
  /\ \A i \in 1 .. 5 : feed[i].stats.offense.pts = (IF i = 5 THEN 105 ELSE 100)
  /\ records.games_included = 5
  /\ records.ps = 1010
  /\ records = calculate_averages(Some(feed), 12)

(***************************************************************************)
(* Claims on the as-of date of the record calculations (SpecFeed).         *)
(***************************************************************************)
\* C13: whenever an as-of date is supplied to the record calculations (home/away,
\* conference, division, vs-conference, last-N and streak), only games on or before
\* that date are counted: for no date value are games after the cutoff counted.
C13_CutoffAlwaysApplied ==
  (Returned /\ "team" \in DOMAIN call /\ call.date # 0) =>
    LET asOf == Cardinality({i \in DOMAIN feed : /\ Involves(feed[i], call.team)
                                                   /\ feed[i].date <= call.date})
    IN  /\ Total(records.home) + Total(records.away) <= asOf
        /\ Total(records.conference) <= asOf
        /\ Total(records.division) <= asOf
        /\ Total(records.vs_eastern) + Total(records.vs_western) <= asOf
        /\ \A n \in {records.last_3, records.last_7, records.last_12} : Total(n) <= asOf
        /\ \/ records.streak = ""
           \/ \E k \in 1 .. asOf : records.streak \in {"W" \o ToString(k), "L" \o ToString(k)}

(***************************************************************************)
(* The matchup report: the header records and the rolling statistics of a  *)
(* game are collected for the same teams and the same date.  The feed      *)
(* keeps a game log for each side of every completed game.                 *)
(***************************************************************************)
MaxMatchupGames == 2

MatchupGames ==
  {Game(<<d, 1>>, d, "COMPLETED", p[1], p[2], sc) :
     d \in Days, p \in {<<"BRO", "PHI">>, <<"PHI", "BRO">>}, sc \in {HomeWin, AwayWin}}

\* the log of a side of a completed game: the points of the score, no shot chart
GameLogOf(game, team) ==
  LET pts     == IF game.awayTeam = team THEN away_score(game) ELSE home_score(game)
      against == IF game.awayTeam = team THEN home_score(game) ELSE away_score(game)
  IN  Log(team, <<game.date, 0>>,
          [offense |-> [pts |-> pts], defense |-> [ptsAgainst |-> against]])

RECURSIVE GameLogs(_)
GameLogs(season) ==
  IF season = <<>> THEN <<>>
  ELSE (IF Final(Head(season))
        THEN <<GameLogOf(Head(season), Head(season).awayTeam),
               GameLogOf(Head(season), Head(season).homeTeam)>>
        ELSE <<>>) \o GameLogs(Tail(season))

PublishMatchupGame ==
  /\ Len(feed) < MaxMatchupGames
  /\ \E g \in MatchupGames : FeedPublish(g)

\* header_collector.collect and rolling_collector.collect on one game
CollectMatchup(away_team, home_team, date) ==
  /\ records = NoRecords
  /\ call' = [away_team |-> away_team, home_team |-> home_team, game_date |-> date]
  /\ records' =
       [away_records |-> get_team_records(convert_to_api_abbr(away_team), feed, date),
        home_records |-> get_team_records(convert_to_api_abbr(home_team), feed, date),
        rolling |->
          collect(Some(TeamGamelogsEndpoint(GameLogs(feed),
                                            convert_to_api_abbr(away_team), LogLimit)),
                  Some(TeamGamelogsEndpoint(GameLogs(feed),
                                            convert_to_api_abbr(home_team), LogLimit)),
                  date)]
  /\ UNCHANGED feed

MatchupReport == \E date \in Days : CollectMatchup("BKN", "PHI", date)

MatchupNext == PublishMatchupGame \/ MatchupReport

SpecMatchup == Init /\ [][MatchupNext]_vars

\* C14: for each window size N in {3, 7, 12} and each team, the rolling averages and the
\* last-N win-loss record are computed over the same slice of games: games_included of
\* the averages equals wins + losses of the last-N record for the same team and date.
C14_SameSlice ==
  (Returned /\ "game_date" \in DOMAIN call) =>
    \A window \in Windows :
      /\ records.rolling.away_rolling_stats[window].games_included
           = Total(records.away_records[window])
      /\ records.rolling.home_rolling_stats[window].games_included
           = Total(records.home_records[window])

(***************************************************************************)
(* Relations between the records of one report.                            *)
(***************************************************************************)
\* the wins a "W-L" text over at most n games states
Wins(text, n) == CHOOSE w \in 0 .. n : \E l \in 0 .. (n - w) : Fmt(w, l) = text

Losses(text, n) == CHOOSE l \in 0 .. n : \E w \in 0 .. (n - l) : Fmt(w, l) = text

\* C27: the division record is contained in the conference record: division wins <=
\* conference wins and division losses <= conference losses, every game counted for
\* the division being against an opponent of the team's own conference.
C27_DivisionWithinConference ==
  (Returned /\ "team" \in DOMAIN call) =>
    /\ Parse(records.division)[1] <= Parse(records.conference)[1]
    /\ Parse(records.division)[2] <= Parse(records.conference)[2]
    /\ \A i \in Done : DivOf(Opp(i)) = DivOf(call.team) /\ DivOf(call.team) # None
                         => ConfOf(Opp(i)) = ConfOf(call.team)

C27_Witness ==
  /\ Returned
  /\ call.team = "PHI"
  /\ Len(Listing) = 2
  /\ {Opp(i) : i \in Done} = {"BRO", "MIL"}
  /\ records.division = "1-0"
  /\ records.conference = "2-0"

\* C28: for a team with a classification entry the conference record equals the
\* vs-conference split of the team's own conference, both computed from the same game
\* list: vs-Eastern for an Eastern team, vs-Western for a Western team.
C28_ConferenceIsOwnSplit ==
  (Returned /\ "team" \in DOMAIN call /\ ConfOf(call.team) # None) =>
    records.conference =
      (IF ConfOf(call.team) = "Eastern" THEN records.vs_eastern ELSE records.vs_western)

C28_Witness ==
  /\ Returned
  /\ call.team = "LAL"
  /\ Len(Listing) = 2
  /\ {Opp(i) : i \in Done} = {"PHI", "DEN"}
  /\ records.conference = "1-0"
  /\ records.vs_western = "1-0"
  /\ records.vs_eastern = "0-1"

\* C29: the three rolling records are nested and consistent with the streak: last-3
\* wins <= last-7 wins <= last-12 wins and likewise for losses, and a streak of k
\* identical outcomes implies that the last-N record holds at least min(k, N) of that
\* outcome for each N in {3, 7, 12}.
C29_NestedWindows ==
  (Returned /\ "team" \in DOMAIN call) =>
    LET w3  == Wins(records.last_3, 3)
        w7  == Wins(records.last_7, 7)
        w12 == Wins(records.last_12, 12)
        l3  == Losses(records.last_3, 3)
        l7  == Losses(records.last_7, 7)
        l12 == Losses(records.last_12, 12)
    IN  /\ w3 <= w7 /\ w7 <= w12
        /\ l3 <= l7 /\ l7 <= l12
        /\ \A k \in 1 .. Len(feed) :
             /\ records.streak = "W" \o ToString(k)
                  => w3 >= Min(k, 3) /\ w7 >= Min(k, 7) /\ w12 >= Min(k, 12)
             /\ records.streak = "L" \o ToString(k)
                  => l3 >= Min(k, 3) /\ l7 >= Min(k, 7) /\ l12 >= Min(k, 12)

C29_Witness ==
  /\ Returned
  /\ Chronicle = <<FALSE, FALSE, TRUE, FALSE, TRUE, TRUE, TRUE, TRUE>>
  /\ records.last_3 = "3-0"
  /\ records.last_7 = "5-2"
  /\ records.last_12 = "5-3"
  /\ records.streak = "W4"

\* C23: per-game averages are the window total divided by the games included, rounded
\* to one decimal place: points per game from the totals 100, 110, 105 over 3 games is
\* exactly 105.0.
C23_RoundedToOneDecimal ==
  (AveragesCalled /\ call.supplied /\ records.games_included > 0) =>
    /\ \A field \in PerGameFields :
         NearestTenth(records[field],
                      WindowTotal(feed, records.games_included, field),
                      records.games_included)
    /\ (/\ records.games_included = 3
        /\ <<feed[1].stats.offense.pts, feed[2].stats.offense.pts,
             feed[3].stats.offense.pts>> = <<100, 110, 105>>)
       => records.ps = 1050

C23_Witness ==
  /\ AveragesCalled /\ call.supplied
  /\ call.num_games = 3
  /\ Len(feed) = 3
  /\ <<feed[1].stats.offense.pts, feed[2].stats.offense.pts,
       feed[3].stats.offense.pts>> = <<100, 110, 105>>
  /\ records.ps = 1050

(***************************************************************************)
(* TeamRankingsCollector._get_team_stats_rankings: offensive and defensive *)
(* ranks from the team_stats_totals.json listing, overall, within the      *)
(* conference and within the division.  An entry of the listing is         *)
(*   [abbreviation, offense, defense]                                      *)
(* with offense and defense the dicts of per-game figures, in tenths of a  *)
(* point.  The request is taken to succeed.                                *)
(***************************************************************************)
eastern_teams ==
  {"ATL", "BOS", "BKN", "BRO", "CHA", "CHI", "CLE", "DET", "IND", "MIA", "MIL", "NYK",
   "ORL", "PHI", "TOR", "WAS"}

western_teams ==
  {"DAL", "DEN", "GSW", "HOU", "LAC", "LAL", "MEM", "MIN", "NOP", "OKC", "OKL", "PHX",
   "POR", "SAC", "SAS", "UTA"}

\* the dict in the order of its keys
division_names == <<"Atlantic", "Central", "Southeast", "Northwest", "Pacific", "Southwest">>

divisions ==
  [Atlantic  |-> {"BOS", "BKN", "BRO", "NYK", "PHI", "TOR"},
   Central   |-> {"CHI", "CLE", "DET", "IND", "MIL"},
   Southeast |-> {"ATL", "CHA", "MIA", "ORL", "WAS"},
   Northwest |-> {"DEN", "MIN", "OKC", "OKL", "POR", "UTA"},
   Pacific   |-> {"GSW", "LAC", "LAL", "PHX", "SAC"},
   Southwest |-> {"DAL", "HOU", "MEM", "NOP", "SAS"}]

\* sorted(entries, key): ascending and stable; keys[i] is the key of entries[i]
sorted(entries, keys) ==
  LET ahead(j, i) == keys[j] < keys[i] \/ (keys[j] = keys[i] /\ j < i)
      place(i)    == 1 + Cardinality({j \in DOMAIN entries : ahead(j, i)})
  IN  [p \in DOMAIN entries |-> entries[CHOOSE i \in DOMAIN entries : place(i) = p]]

\* sorted(entries, key=ptsPerGame, reverse=True): descending, equal keys in listing order
by_offense(entries) ==
  sorted(entries, [i \in DOMAIN entries |-> 0 - entries[i].offense.ptsPerGame])

\* key of teams_def
overall_defense_key(x) ==
  Get(x.defense, "oppPtsPerGame", Get(x.defense, "ptsAgainstPerGame", 0))

\* key of eastern_def, western_def and division_def
group_defense_key(x) == Get(x.defense, "oppPtsPerGame", 0)

teams_def_of(all_teams) ==
  sorted(all_teams, [i \in DOMAIN all_teams |-> overall_defense_key(all_teams[i])])

group_def_of(entries) ==
  sorted(entries, [i \in DOMAIN entries |-> group_defense_key(entries[i])])

\* next((i for i, t in enumerate(ranked, 1) if t abbreviation == abbreviation), None)
rank_of(ranked, abbreviation) ==
  LET found == {i \in DOMAIN ranked : ranked[i].abbreviation = abbreviation}
  IN  IF found = {} THEN NoValue
      ELSE Some(CHOOSE i \in found : \A j \in found : i <= j)

in_eastern(t) ==
  t.abbreviation \in eastern_teams \/ (t.abbreviation = "BRO" /\ "BKN" \in eastern_teams)

in_western(t) ==
  t.abbreviation \in western_teams \/ (t.abbreviation = "OKL" /\ "OKC" \in western_teams)

in_division(t, div_teams) ==
  \/ t.abbreviation \in div_teams
  \/ (t.abbreviation = "BRO" /\ "BKN" \in div_teams)
  \/ (t.abbreviation = "OKL" /\ "OKC" \in div_teams)

\* "if abbr == 'BRO': abbr = 'BKN' elif abbr == 'OKL': abbr = 'OKC'"
ranking_key(abbreviation) ==
  IF abbreviation = "BRO" THEN "BKN"
  ELSE IF abbreviation = "OKL" THEN "OKC" ELSE abbreviation

\* the first division of the dict that lists the team, None when there is none
team_division_of(abbr) ==
  LET found == {k \in DOMAIN division_names : abbr \in divisions[division_names[k]]}
  IN  IF found = {} THEN None
      ELSE division_names[CHOOSE k \in found : \A j \in found : k <= j]

team_rankings_of(team, all_teams) ==
  LET abbr          == ranking_key(team.abbreviation)
      teams_off     == by_offense(all_teams)
      teams_def     == teams_def_of(all_teams)
      eastern       == SelectSeq(all_teams, in_eastern)
      western       == SelectSeq(all_teams, in_western)
      conference    == IF abbr \in eastern_teams THEN eastern ELSE western
      team_division == team_division_of(abbr)
      division      == IF team_division = None THEN <<>>
                       ELSE SelectSeq(all_teams,
                                      LAMBDA t : in_division(t, divisions[team_division]))
  IN  [offensive_rank       |-> rank_of(teams_off, team.abbreviation),
       defensive_rank       |-> rank_of(teams_def, team.abbreviation),
       conference_offensive |-> rank_of(by_offense(conference), team.abbreviation),
       conference_defensive |-> rank_of(group_def_of(conference), team.abbreviation),
       division_offensive   |-> rank_of(by_offense(division), team.abbreviation),
       division_defensive   |-> rank_of(group_def_of(division), team.abbreviation)]

\* the rankings dict: one entry per listed team, under its common abbreviation; a later
\* entry of the listing overwrites an earlier one with the same key
get_team_stats_rankings(all_teams) ==
  LET keys    == {ranking_key(all_teams[i].abbreviation) : i \in DOMAIN all_teams}
      last(k) == CHOOSE i \in DOMAIN all_teams :
                   /\ ranking_key(all_teams[i].abbreviation) = k
                   /\ \A j \in DOMAIN all_teams :
                        ranking_key(all_teams[j].abbreviation) = k => j <= i
  IN  [k \in keys |-> team_rankings_of(all_teams[last(k)], all_teams)]

(***************************************************************************)
(* The listing: each team once, in any order; the feed reports points      *)
(* allowed under one key for every team of a listing.                      *)
(***************************************************************************)
MaxRankTeams == 3

RankTeams == {"PHI", "BOS", "MIL", "OKL"}

PointsFor == {1120, 1150}

PointsAllowed == {1050, 1100}

DefenseKeys == {"oppPtsPerGame", "ptsAgainstPerGame"}

TeamStats(abbreviation, ptsPerGame, key, allowed) ==
  [abbreviation |-> abbreviation,
   offense      |-> [ptsPerGame |-> ptsPerGame],
   defense      |-> [k \in {key} |-> allowed]]

PublishTeamStats ==
  /\ Len(feed) < MaxRankTeams
  /\ \E abbreviation \in RankTeams, ptsPerGame \in PointsFor, key \in DefenseKeys,
        allowed \in PointsAllowed :
       /\ \A i \in DOMAIN feed :
            /\ feed[i].abbreviation # abbreviation
            /\ DOMAIN feed[i].defense = {key}
       /\ FeedPublish(TeamStats(abbreviation, ptsPerGame, key, allowed))

\* _get_team_stats_rankings(season)
GetTeamStatsRankings ==
  /\ records = NoRecords
  /\ feed # <<>>
  /\ call' = [stats_season |-> "2024-2025-regular"]
  /\ records' = get_team_stats_rankings(feed)
  /\ UNCHANGED feed

RankingsNext == PublishTeamStats \/ GetTeamStatsRankings

SpecRankings == Init /\ [][RankingsNext]_vars

Ranked == Returned /\ "stats_season" \in DOMAIN call

\* the conference and the division the rankings file a team under
RankConference(abbr) == IF abbr \in eastern_teams THEN "Eastern" ELSE "Western"

\* C30: conference and division defensive ranks order teams by the same points-allowed
\* measure as the overall defensive rank: of two teams of the same conference (or
\* division) the one with the better overall defensive rank also has the better
\* conference (or division) defensive rank, and a team's conference rank never exceeds
\* its overall rank.
C30_SameDefensiveMeasure ==
  Ranked =>
    /\ \A a, b \in DOMAIN records :
         records[a].defensive_rank[1] < records[b].defensive_rank[1] =>
           /\ RankConference(a) = RankConference(b)
                => records[a].conference_defensive[1] < records[b].conference_defensive[1]
           /\ (team_division_of(a) = team_division_of(b) /\ team_division_of(a) # None)
                => records[a].division_defensive[1] < records[b].division_defensive[1]
    /\ \A a \in DOMAIN records :
         records[a].conference_defensive[1] <= records[a].defensive_rank[1]

\* the conference lists that hold a team identifier
ConferencesOf(abbr) ==
  {c \in {"Eastern", "Western"} :
     abbr \in (IF c = "Eastern" THEN eastern_teams ELSE western_teams)}

\* C22: in the team classification table division membership implies conference
\* membership consistently: two team identifiers with the same division have the same
\* conference, each team has exactly one conference out of two values, and the feed's
\* aliases (BRO/BKN, OKL/OKC) carry the conference and division of the team they alias.
C22_DivisionImpliesConference ==
  /\ \A a, b \in DOMAIN team_info :
       team_info[a].div = team_info[b].div => team_info[a].conf = team_info[b].conf
  /\ \A a \in DOMAIN team_info : team_info[a].conf \in {"Eastern", "Western"}
  /\ \A alias \in DOMAIN api_to_common :
       /\ alias \in DOMAIN team_info
       /\ team_info[alias] = team_info[api_to_common[alias]]
  /\ \A d \in DOMAIN divisions : \A a, b \in divisions[d] :
       ConferencesOf(a) = ConferencesOf(b)
  /\ \A a \in eastern_teams \cup western_teams : Cardinality(ConferencesOf(a)) = 1
  /\ \A alias \in DOMAIN api_to_common :
       /\ ConferencesOf(alias) = ConferencesOf(api_to_common[alias])
       /\ team_division_of(alias) = team_division_of(api_to_common[alias])
       /\ team_division_of(alias) # None
  /\ (Returned /\ "team" \in DOMAIN call) =>
       \A i \in DOMAIN feed :
         (DivOf(feed[i].awayTeam) = DivOf(feed[i].homeTeam)
            /\ DivOf(feed[i].awayTeam) # None)
           => ConfOf(feed[i].awayTeam) = ConfOf(feed[i].homeTeam)

C22_Witness ==
  /\ Returned
  /\ call.team = "BRO"
  /\ Len(feed) = 1
  /\ feed[1].awayTeam = "BRO" /\ feed[1].homeTeam = "PHI"
  /\ records.division = "1-0"
  /\ records.conference = "1-0"

(***************************************************************************)
(* get_h2h_season_record: the season series of two teams from one          *)
(* games.json request for both teams, sent without a date parameter.       *)
(***************************************************************************)
\* games.json with params {'team': 'a,b'}: the games of either team
H2HEndpoint(season, team_a, team_b) ==
  SelectSeq(season, LAMBDA g : Involves(g, team_a) \/ Involves(g, team_b))

\* "if '-' in game_id_str: game_date = parts[0]; if game_date and game_date > date"
after_date(game, date) ==
  /\ Len(game.id) > 1
  /\ game_date(game.id) # <<>>
  /\ game_date(game.id)[1] > date

H2HStep(acc, game, team_a, team_b, date) ==
  IF {game.awayTeam, game.homeTeam} # {team_a, team_b} THEN acc
  ELSE IF Skipped(game) THEN acc
  ELSE IF after_date(game, date) THEN acc
  ELSE IF away_score(game) > home_score(game)
       THEN IF game.awayTeam = team_a
            THEN [acc EXCEPT !.team_a_wins = @ + 1]
            ELSE [acc EXCEPT !.team_b_wins = @ + 1]
       ELSE IF game.homeTeam = team_a
            THEN [acc EXCEPT !.team_a_wins = @ + 1]
            ELSE [acc EXCEPT !.team_b_wins = @ + 1]

RECURSIVE H2HLoop(_, _, _, _, _)
H2HLoop(games, team_a, team_b, date, acc) ==
  IF games = <<>> THEN acc
  ELSE H2HLoop(Tail(games), team_a, team_b, date,
               H2HStep(acc, Head(games), team_a, team_b, date))

get_h2h_season_record(team_a, team_b, season, date) ==
  LET data == H2HEndpoint(season, team_a, team_b)
      t    == H2HLoop(data, team_a, team_b, date, [team_a_wins |-> 0, team_b_wins |-> 0])
  IN  Fmt(t.team_a_wins, t.team_b_wins)

MaxH2HGames == 2

\* the season of the two teams: meetings at either arena, ids with or without a date
\* prefix, a meeting in progress, and a game of one of them against a third team
H2HGamesOn(d) ==
  {Game(id, d, "COMPLETED", "BRO", "PHI", sc) :
     id \in {<<47000 + (d % 100)>>, <<d, 1>>}, sc \in {HomeWin, AwayWin}}
  \cup
  {Game(<<d, 2>>, d, "COMPLETED", "PHI", "BRO", sc) : sc \in {HomeWin, AwayWin}}
  \cup
  {Game(<<d, 1>>, d, "LIVE", "BRO", "PHI", HomeWin),
   Game(<<d, 3>>, d, "COMPLETED", "MIL", "PHI", AwayWin)}

H2HGames == UNION {H2HGamesOn(d) : d \in Days}

PublishH2HGame ==
  /\ Len(feed) < MaxH2HGames
  /\ \E g \in H2HGames : FeedPublish(g)

GetH2HSeasonRecord(team_a, team_b, date) ==
  /\ records = NoRecords
  /\ call' = [team_a |-> team_a, team_b |-> team_b, date |-> date]
  /\ records' = [h2h |-> get_h2h_season_record(team_a, team_b, feed, date)]
  /\ UNCHANGED feed

H2HReport == \E date \in Days : GetH2HSeasonRecord("BRO", "PHI", date)

H2HNext == PublishH2HGame \/ H2HReport

SpecH2H == Init /\ [][H2HNext]_vars

\* the completed meetings of the two teams played on or before the date of the call
Meetings ==
  {i \in DOMAIN feed :
     /\ {feed[i].awayTeam, feed[i].homeTeam} = {call.team_a, call.team_b}
     /\ IsCompleted(feed[i])
     /\ feed[i].date <= call.date}

WonBy(i) ==
  IF feed[i].score.awayScoreTotal > feed[i].score.homeScoreTotal
  THEN feed[i].awayTeam ELSE feed[i].homeTeam

\* C24: the head-to-head record counts only completed games between the two given
\* teams that were played on or before the given date: team_a_wins + team_b_wins
\* equals the number of such games, each credited to exactly one of the two teams.
C24_H2HUpToDate ==
  (Returned /\ "team_a" \in DOMAIN call) =>
    records.h2h = Fmt(Cardinality({i \in Meetings : WonBy(i) = call.team_a}),
                      Cardinality({i \in Meetings : WonBy(i) = call.team_b}))

(***************************************************************************)
(* RollingStatsCollector._make_request, step by step: the delay before the *)
(* request, the request and its answer, the backoff before a retry.  In    *)
(* this part feed is the log of the answers the server gave, call is the   *)
(* frame of the running call and records is what the call returned.  Each  *)
(* requests.get is taken to return a response or raise.                    *)
(***************************************************************************)
max_retries == 3

retry_delay == 30

MaxCalls == 2

\* one retry more than max_retries allows
may_retry_once_more(retry_count) == retry_count <= max_retries

\* "if retry_count < self.max_retries"
may_retry(retry_count) == retry_count < max_retries

\* wait_time = self.retry_delay * (retry_count + 1)
wait_time_of(retry_count) == retry_delay * (retry_count + 1)

\* answers of the server: status 0 stands for a request that raised (no response);
\* json tells whether response.json() parses the body
Reply(status, json) == [status |-> status, json |-> json]

Replies ==
  {Reply(200, TRUE), Reply(200, FALSE), Reply(429, FALSE), Reply(500, FALSE),
   Reply(0, FALSE)}

Endpoints == {"team_gamelogs.json"}

Frame(endpoint, number, retry_count, pc, waits) ==
  [endpoint |-> endpoint, request_number |-> number, retry_count |-> retry_count,
   pc |-> pc, waits |-> waits]

\* a caller invokes _make_request(endpoint, params) with retry_count = 0
StartRequest ==
  /\ \/ call = NoCall
     \/ "pc" \in DOMAIN call /\ call.pc = "done"
  /\ \E endpoint \in Endpoints :
       LET number == IF call = NoCall THEN 1 ELSE call.request_number + 1
       IN  /\ number <= MaxCalls
           /\ call' = Frame(endpoint, number, 0, "delay", <<>>)
  /\ records' = NoRecords
  /\ UNCHANGED feed

\* time.sleep(self.request_delay)
RequestDelay ==
  /\ "pc" \in DOMAIN call /\ call.pc = "delay"
  /\ call' = [call EXCEPT !.pc = "get"]
  /\ UNCHANGED <<feed, records>>

\* requests.get and the handling of its outcome
Respond ==
  /\ "pc" \in DOMAIN call /\ call.pc = "get"
  /\ \E reply \in Replies :
       /\ feed' = Append(feed, [request_number |-> call.request_number, reply |-> reply])
       /\ IF reply.status = 429
          THEN IF may_retry(call.retry_count)
               THEN /\ call' = [call EXCEPT !.pc = "backoff"]
                    /\ UNCHANGED records
               ELSE /\ call' = [call EXCEPT !.pc = "done"]
                    /\ records' = [response |-> NoValue]
          ELSE /\ call' = [call EXCEPT !.pc = "done"]
               /\ records' = [response |-> IF reply.status = 200 /\ reply.json
                                           THEN Some("json") ELSE NoValue]

\* time.sleep(wait_time), then the recursive call with retry_count + 1
Backoff ==
  /\ "pc" \in DOMAIN call /\ call.pc = "backoff"
  /\ call' = [call EXCEPT !.waits = Append(@, wait_time_of(call.retry_count)),
                          !.retry_count = @ + 1,
                          !.pc = "delay"]
  /\ UNCHANGED <<feed, records>>

MakeRequestStep == RequestDelay \/ Respond \/ Backoff

RequestsNext == StartRequest \/ RequestDelay \/ Respond \/ Backoff

SpecRequests == Init /\ [][RequestsNext]_vars

\* a started call is not suspended for ever
SpecRequestsFair == Init /\ [][RequestsNext]_vars /\ WF_vars(MakeRequestStep)

Requesting == "pc" \in DOMAIN call

\* the answers given to the requests of the running call, in order
Answers ==
  SelectSeq(feed, LAMBDA entry : entry.request_number = call.request_number)

RequestsBounded ==
  Requesting =>
    /\ Len(Answers) <= max_retries + 1
    /\ \A i \in 1 .. (Len(Answers) - 1) : Answers[i].reply.status = 429
    /\ Len(call.waits) = call.retry_count
    /\ \A k \in DOMAIN call.waits : call.waits[k] = retry_delay * k
    /\ call.pc = "done" =>
         LET last == Answers[Len(Answers)].reply
         IN  /\ Len(call.waits) = Len(Answers) - 1
             /\ last.status = 429 =>
                  Len(Answers) = max_retries + 1 /\ records.response = NoValue
             /\ last.status \notin {200, 429} => records.response = NoValue
             /\ records.response # NoValue => last.status = 200

\* C25: _make_request always terminates and issues at most max_retries + 1 (4) HTTP
\* requests per call: it retries only on a 429 response, waits retry_delay * k before
\* the k-th retry, returns None once the request following the last allowed retry is
\* also rate limited, and returns None without retrying on any other error.
C25_BoundedRetries ==
  /\ []RequestsBounded
  /\ (Requesting /\ call.pc # "done") ~> (Requesting /\ call.pc = "done")

C25_Witness ==
  /\ Requesting
  /\ call.pc = "done"
  /\ Len(Answers) = 4
  /\ \A i \in DOMAIN Answers : Answers[i].reply.status = 429
  /\ call.waits = <<30, 60, 90>>
  /\ records.response = NoValue

(***************************************************************************)
(* DailyReportRunner: one report per game of a date.  In this part feed is *)
(* the feed's games.json listing for the date, call is the frame of the    *)
(* run (the fetched games, the position of the loop) and records holds the *)
(* runner's processed_games and failed_games with the summary returned.    *)
(* A report either is generated or fails with an exception.                *)
(***************************************************************************)
\* f"{away_team} @ {home_team}"
matchup_of(game) == game.away_team \o " @ " \o game.home_team

\* the failure handler that loses the entry
drop_failure(failed_games, game) == failed_games

\* the except branch of generate_report_for_game
record_failure(failed_games, game) == Append(failed_games, [matchup |-> matchup_of(game)])

\* generate_report_for_game: True and an entry in processed_games, or False and an
\* entry in failed_games
generate_report_for_game(tracking, game, generated) ==
  IF generated
  THEN [tracking EXCEPT !.processed_games = Append(@, [matchup |-> matchup_of(game)])]
  ELSE [tracking EXCEPT !.failed_games = record_failure(@, game)]

RECURSIVE GamesLoop(_)
GamesLoop(listing) ==
  IF listing = <<>> THEN <<>>
  ELSE LET game == Head(listing)
       IN  IF game.awayTeam # None /\ game.homeTeam # None
           THEN <<[away_team |-> convert_to_common_abbr(game.awayTeam),
                   home_team |-> convert_to_common_abbr(game.homeTeam),
                   status    |-> game.playedStatus]>> \o GamesLoop(Tail(listing))
           ELSE GamesLoop(Tail(listing))

\* get_games_for_date: the games with both abbreviations, [] when the request fails
get_games_for_date(listing, answered) == IF answered THEN GamesLoop(listing) ELSE <<>>

\* "if not include_unplayed and game['status'] != 'COMPLETED': continue"
skipped_unplayed(include_unplayed, game) == ~include_unplayed /\ game.status # "COMPLETED"

generate_summary(tracking) ==
  [total_games |-> Len(tracking.processed_games) + Len(tracking.failed_games),
   processed   |-> Len(tracking.processed_games),
   failed      |-> Len(tracking.failed_games)]

\* DailyReportRunner.__init__
NoTracking == [processed_games |-> <<>>, failed_games |-> <<>>, summary |-> NoValue]

MaxDailyGames == 2

MaxRuns == 2

DailyGame(away, home, status) == [awayTeam |-> away, homeTeam |-> home, playedStatus |-> status]

DailyGames ==
  {DailyGame(p[1], p[2], status) :
     p \in {<<"BRO", "PHI">>, <<"LAL", "DEN">>, <<"MIL", None>>},
     status \in {"COMPLETED", "UNPLAYED"}}

Idle == call = NoCall \/ ("pc" \in DOMAIN call /\ call.pc = "done")

DailyInit ==
  /\ feed = <<>>
  /\ call = NoCall
  /\ records = NoTracking

\* the schedule of the date gains a game; each team plays once a day
ListDailyGame ==
  /\ Idle
  /\ Len(feed) < MaxDailyGames
  /\ \E g \in DailyGames :
       /\ \A i \in DOMAIN feed : feed[i].awayTeam # g.awayTeam
       /\ feed' = Append(feed, g)
  /\ UNCHANGED <<call, records>>

\* run_daily_reports up to the loop: reset of the tracking lists, the games of the
\* date, and the early return when there are none
StartRun ==
  /\ Idle
  /\ \E include_unplayed \in BOOLEAN, answered \in BOOLEAN :
       LET run   == IF call = NoCall THEN 1 ELSE call.run + 1
           games == get_games_for_date(feed, answered)
       IN  /\ run <= MaxRuns
           /\ call' = [run |-> run, include_unplayed |-> include_unplayed,
                       games |-> games, i |-> 1,
                       pc |-> IF games = <<>> THEN "done" ELSE "loop"]
           /\ records' = IF games = <<>>
                         THEN [NoTracking EXCEPT
                                 !.summary = Some([total_games |-> 0, processed |-> 0,
                                                   failed |-> 0])]
                         ELSE NoTracking
  /\ UNCHANGED feed

\* one iteration of "for i, game in enumerate(games, 1)"
ProcessGame ==
  /\ "pc" \in DOMAIN call /\ call.pc = "loop"
  /\ call.i <= Len(call.games)
  /\ LET game == call.games[call.i]
     IN  IF skipped_unplayed(call.include_unplayed, game)
         THEN UNCHANGED records
         ELSE \E generated \in BOOLEAN :
                records' = generate_report_for_game(records, game, generated)
  /\ call' = [call EXCEPT !.i = @ + 1]
  /\ UNCHANGED feed

\* after the loop: generate_summary and return
FinishRun ==
  /\ "pc" \in DOMAIN call /\ call.pc = "loop"
  /\ call.i > Len(call.games)
  /\ records' = [records EXCEPT !.summary = Some(generate_summary(records))]
  /\ call' = [call EXCEPT !.pc = "done"]
  /\ UNCHANGED feed

DailyNext == ListDailyGame \/ StartRun \/ ProcessGame \/ FinishRun

SpecDaily == DailyInit /\ [][DailyNext]_vars

RunFinished == "pc" \in DOMAIN call /\ call.pc = "done"

\* the games of the run that were not skipped
Attempted ==
  {i \in DOMAIN call.games : call.include_unplayed \/ call.games[i].status = "COMPLETED"}

\* how often a matchup is recorded in a tracking list
Recorded(list, i) ==
  Cardinality({k \in DOMAIN list : list[k].matchup = matchup_of(call.games[i])})

\* C26: after run_daily_reports finishes for any list of games, every game that was not
\* skipped is recorded in exactly one of processed_games and failed_games (a failure in
\* one game does not stop later games from being attempted, and entries of an earlier
\* run are not carried over), and the summary satisfies total_games = processed + failed.
C26_EveryGameAccounted ==
  RunFinished =>
    /\ \A i \in Attempted :
         Recorded(records.processed_games, i) + Recorded(records.failed_games, i) = 1
    /\ Len(records.processed_games) + Len(records.failed_games) = Cardinality(Attempted)
    /\ records.summary # NoValue
    /\ records.summary[1].total_games
         = records.summary[1].processed + records.summary[1].failed
    /\ records.summary[1].processed = Len(records.processed_games)
    /\ records.summary[1].failed = Len(records.failed_games)

C26_Witness ==
  /\ RunFinished
  /\ call.run = 2
  /\ Len(call.games) = 2
  /\ records.failed_games = <<[matchup |-> "BKN @ PHI"]>>
  /\ records.processed_games = <<[matchup |-> "LAL @ DEN"]>>
  /\ records.summary = Some([total_games |-> 2, processed |-> 1, failed |-> 1])

(***************************************************************************)
(* The aggregations called twice on one list held by the caller, as        *)
(* collect calls calculate_averages on away_logs for the windows 3, 7 and  *)
(* 12.  In this part feed is the caller's list, in any order: game logs    *)
(* for calculate_averages, or the games of a listing for the recent        *)
(* records.  call keeps the list as first passed and the parameters.       *)
(***************************************************************************)
\* a call that cuts the caller's list down to the window it averaged
logs_cut_to_window(game_logs, num_games) == Slice(game_logs, min(num_games, Len(game_logs)))

\* the caller's list after calculate_averages: game_logs[:n] is a copy and the list is
\* only read
logs_after_averages(game_logs, num_games) == game_logs

\* the listing after _calculate_recent_records_and_streak: the sort is applied to the
\* local list sorted_games
games_after_records(data) == data

MaxTwiceItems == 3

TwiceWindows == {1, 3, 7}

TwiceLogs == {WindowLog(k, pts) : k \in 1 .. MaxTwiceItems, pts \in {100, 110}}

TwiceGames == {SeasonGame(k, won) : k \in 1 .. MaxTwiceItems, won \in BOOLEAN}

HoldsLogs == \A i \in DOMAIN feed : "stats" \in DOMAIN feed[i]

HoldsGames == \A i \in DOMAIN feed : "playedStatus" \in DOMAIN feed[i]

\* the caller's list gains a log, in no particular order of days
HoldLog ==
  /\ Len(feed) < MaxTwiceItems
  /\ HoldsLogs
  /\ \E log \in TwiceLogs :
       /\ \A i \in DOMAIN feed : feed[i].game.startTime # log.game.startTime
       /\ FeedPublish(log)

\* the listing gains a game, in no particular order of days
HoldGame ==
  /\ Len(feed) < MaxTwiceItems
  /\ HoldsGames
  /\ \E game \in TwiceGames :
       /\ \A i \in DOMAIN feed : feed[i].date # game.date
       /\ FeedPublish(game)

AveragesFirst ==
  /\ records = NoRecords
  /\ feed # <<>> /\ HoldsLogs
  /\ \E num_games \in TwiceWindows :
       /\ call' = [given |-> feed, first_games |-> num_games]
       /\ records' = [first |-> calculate_averages(Some(feed), num_games)]
       /\ feed' = logs_after_averages(feed, num_games)

AveragesAgain ==
  /\ "first_games" \in DOMAIN call
  /\ "again_games" \notin DOMAIN call
  /\ \E num_games \in TwiceWindows :
       /\ call' = [given |-> call.given, first_games |-> call.first_games,
                   again_games |-> num_games]
       /\ records' = [first |-> records.first,
                      again |-> calculate_averages(Some(feed), num_games)]
       /\ feed' = logs_after_averages(feed, num_games)

RecordsFirst ==
  /\ records = NoRecords
  /\ feed # <<>> /\ HoldsGames
  /\ call' = [given |-> feed, records_team |-> "PHI"]
  /\ records' = [first |-> calculate_recent_records_and_streak("PHI", feed)]
  /\ feed' = games_after_records(feed)

RecordsAgain ==
  /\ "records_team" \in DOMAIN call
  /\ "again" \notin DOMAIN records
  /\ call' = call
  /\ records' = [first |-> records.first,
                 again |-> calculate_recent_records_and_streak(call.records_team, feed)]
  /\ feed' = games_after_records(feed)

TwiceNext ==
  HoldLog \/ HoldGame \/ AveragesFirst \/ AveragesAgain \/ RecordsFirst \/ RecordsAgain

SpecTwice == Init /\ [][TwiceNext]_vars

====
